---- MODULE Spec2Model ----
(***************************************************************************)
(* A model of explain-files.mjs: the `files` question of the inquirer     *)
(* prompt (directory walk, filter, token-budget validation), the explain  *)
(* function (message assembly, request) and the AIStream callback.        *)
(*                                                                         *)
(* Strings the code inspects (paths, extensions, model ids) are sequences *)
(* of one-character strings, so endsWith / includes / match / trim are    *)
(* computed; strings the code only passes along are TLA+ strings.         *)
(*                                                                         *)
(* The apiKey question, the credential file and the --help, --version and *)
(* --reset-key branches take no part in the properties and are left out.  *)
(***************************************************************************)
EXTENDS Integers, Sequences, FiniteSets, TLC

VARIABLES
    \* environment, fixed during one run
    tree,        \* the directory tree below options.cwd: a set of [path, dir]
    tokens,      \* absolute path -> encoding.encode(content).length
    body,        \* absolute path -> file content
    ext,         \* options.ext
    filter,      \* options.filter
    argFiles,    \* options.files (positional arguments)
    argModel,    \* options.model
    argPrompt,   \* args['--prompt']
    \* the walk inside the `choices` function of the files question
    stack,       \* frames of the recursive generator getFiles
    yielded,     \* what getFiles has yielded so far
    files,       \* the local array `files` of choices
    \* the inquirer session and explain
    pc,          \* where the run is
    answers,     \* the inquirer answers object
    offered,     \* the choices shown by the checkbox
    validation,  \* the outcome of the last validate call
    contents,    \* the slots of Promise.all in explain
    request,     \* the body of the chat-completion request, once sent
    exitCode,    \* the process exit code, once the process has ended
    log,         \* what console.log printed before the request
    \* the AIStream callback
    received,    \* the chunks handed to the callback so far
    out,         \* what went to standard output after 'OpenAI says:'
    prevOut      \* standard output before the last callback call

envVars == <<tree, tokens, body, ext, filter, argFiles, argModel, argPrompt>>
walkVars == <<stack, yielded, files>>
runVars == <<pc, answers, offered, validation, contents, request, exitCode, log>>
streamVars == <<received, out, prevOut>>
vars == <<envVars, walkVars, runVars, streamVars>>

(***************************************************************************)
(* Bounds of the model.                                                    *)
(***************************************************************************)
MaxDepth == 2
MaxEntries == 3
MaxIdLen == 4
MaxChunks == 3

(***************************************************************************)
(* Strings.                                                                *)
(***************************************************************************)
Nil == "undefined"
None == [given |-> FALSE, val |-> <<>>]
Some(v) == [given |-> TRUE, val |-> v]

Range(s) == {s[i] : i \in 1..Len(s)}

endsWith(s, suffix) ==
    /\ Len(suffix) <= Len(s)
    /\ SubSeq(s, Len(s) - Len(suffix) + 1, Len(s)) = suffix

includes(s, sub) ==
    \E i \in 1..(Len(s) - Len(sub) + 1) : SubSeq(s, i, i + Len(sub) - 1) = sub

Whitespace == {" ", "\n"}

RECURSIVE trimStart(_)
trimStart(s) ==
    IF s # <<>> /\ Head(s) \in Whitespace THEN trimStart(Tail(s)) ELSE s

RECURSIVE trimEnd(_)
trimEnd(s) ==
    IF s # <<>> /\ s[Len(s)] \in Whitespace
    THEN trimEnd(SubSeq(s, 1, Len(s) - 1))
    ELSE s

trim(s) == trimEnd(trimStart(s))

(***************************************************************************)
(* The file system below options.cwd.                                      *)
(***************************************************************************)
N_node_modules == <<"n","o","d","e","_","m","o","d","u","l","e","s">>
N_git == <<".","g","i","t">>
N_next == <<".","n","e","x","t">>
N_vscode == <<".","v","s","c","o","d","e">>
N_idea == <<".","i","d","e","a">>
N_github == <<".","g","i","t","h","u","b">>
N_dist == <<"d","i","s","t">>
N_build == <<"b","u","i","l","d">>
N_lib == <<"l","i","b">>
N_ajs == <<"a",".","j","s">>
N_bts == <<"b",".","t","s">>

\* COMMON_JUNK_DIRS with 'dist' left out.
JunkDirsWithoutDist ==
    <<N_node_modules, N_git, N_next, N_vscode, N_idea, N_github, N_build>>

COMMON_JUNK_DIRS ==
    <<N_node_modules, N_git, N_next, N_vscode, N_idea, N_github, N_dist, N_build>>

\* The names a directory entry can have, in the order readdir lists them.
Names == <<N_ajs, N_bts, N_dist, N_lib>>

cwd == <<"/","w">>

\* path.resolve(dir, name)
resolve(dir, name) == dir \o <<"/">> \o name

\* path.relative(options.cwd, file), for a file below options.cwd
relative(file) == SubSeq(file, Len(cwd) + 2, Len(file))

RECURSIVE AbsOf(_)
\* The absolute path of the entry whose names below options.cwd are `segs`.
AbsOf(segs) ==
    IF segs = <<>> THEN cwd
    ELSE resolve(AbsOf(SubSeq(segs, 1, Len(segs) - 1)), segs[Len(segs)])

RECURSIVE SegPaths(_)
SegPaths(d) ==
    IF d = 0 THEN {<<>>}
    ELSE LET shorter == SegPaths(d - 1)
         IN shorter \cup {Append(p, Names[i]) : p \in shorter, i \in 1..Len(Names)}

EntryPaths == SegPaths(MaxDepth) \ {<<>>}

Parent(p) == SubSeq(p, 1, Len(p) - 1)

CanAdd(t, p) ==
    /\ \A e \in t : e.path # p
    /\ Len(p) > 1 => [path |-> Parent(p), dir |-> TRUE] \in t

RECURSIVE TreesUpTo(_)
\* Every tree of at most k entries: an entry lies in a directory of the tree.
TreesUpTo(k) ==
    IF k = 0 THEN {{}}
    ELSE LET smaller == TreesUpTo(k - 1)
         IN smaller \cup
            UNION {{t \cup {[path |-> p, dir |-> d]} : d \in BOOLEAN, p \in {q \in EntryPaths : CanAdd(t, q)}}
                   : t \in smaller}

FilesOf(t) == {AbsOf(e.path) : e \in {x \in t : ~x.dir}}

\* fs.readdir(dir, {withFileTypes: true}): the entries of the directory `segs`.
readdir(t, segs) ==
    LET present == {i \in 1..Len(Names) : \E e \in t : e.path = Append(segs, Names[i])}
        RECURSIVE listing(_)
        listing(i) ==
            IF i > Len(Names) THEN <<>>
            ELSE IF i \in present
                 THEN <<[name |-> Names[i],
                         segs |-> Append(segs, Names[i]),
                         isDirectory |-> [path |-> Append(segs, Names[i]), dir |-> TRUE] \in t]>>
                      \o listing(i + 1)
                 ELSE listing(i + 1)
    IN listing(1)

(***************************************************************************)
(* Options the run can be started with.                                    *)
(***************************************************************************)
E_js == <<".","j","s">>
E_ts == <<".","t","s">>
E_JS == <<".","J","S">>

ExtOptions == {None, Some(<<E_js>>), Some(<<E_ts, E_js>>), Some(<<E_JS>>)}
FilterOptions == {None, Some(<<N_lib>>), Some(<<N_bts, <<"w">>>>)}

NoAnswers == [model |-> None, files |-> None, prompt |-> <<>>]
NoValidation == [ran |-> FALSE, files |-> <<>>, ok |-> FALSE, tokenCount |-> 0, MAX_TOKEN |-> 0]

IdleWalk == stack = <<>> /\ yielded = <<>> /\ files = <<>>
IdleStream == received = <<>> /\ out = <<>> /\ prevOut = <<>>

(***************************************************************************)
(* The files question: choices.                                            *)
(***************************************************************************)
Frame(dir, segs) == [dir |-> dir, segs |-> segs, rest |-> readdir(tree, segs)]

\* KeepFile with `every` in place of `some` for the extensions.
KeepFileEvery(f) ==
    /\ ~(filter.given /\ ~\E x \in Range(filter.val) : includes(f, x))
    /\ ~(ext.given /\ ~\A x \in Range(ext.val) : endsWith(f, x))

\* The two `continue` tests of the for-await loop of choices.
KeepFile(f) ==
    /\ ~(filter.given /\ ~\E x \in Range(filter.val) : includes(f, x))
    /\ ~(ext.given /\ ~\E x \in Range(ext.val) : endsWith(f, x))

\* inquirer asks the files question (no answer for it yet) and calls choices,
\* which starts iterating getFiles(options.cwd).
ChoicesStart ==
    /\ pc = "files"
    /\ ~answers.files.given
    /\ stack' = <<Frame(cwd, <<>>)>>
    /\ yielded' = <<>>
    /\ files' = <<>>
    /\ pc' = "walking"
    /\ UNCHANGED <<envVars, streamVars, answers, offered, validation, contents, request, exitCode, log>>

\* One iteration of `for (const dirent of dirents)` in the innermost getFiles,
\* with the body of the for-await loop of choices when a file is yielded.
WalkStep ==
    /\ pc = "walking"
    /\ stack # <<>>
    /\ LET n == Len(stack)
           top == stack[n]
       IN IF top.rest = <<>>
          THEN /\ stack' = SubSeq(stack, 1, n - 1)
               /\ UNCHANGED <<yielded, files>>
          ELSE LET dirent == Head(top.rest)
                   res == resolve(top.dir, dirent.name)
                   popped == [stack EXCEPT ![n].rest = Tail(top.rest)]
               IN IF dirent.name \in Range(COMMON_JUNK_DIRS)
                  THEN /\ stack' = popped
                       /\ UNCHANGED <<yielded, files>>
                  ELSE IF dirent.isDirectory
                  THEN /\ stack' = Append(popped, Frame(res, dirent.segs))
                       /\ UNCHANGED <<yielded, files>>
                  ELSE /\ stack' = popped
                       /\ yielded' = Append(yielded, res)
                       /\ files' = IF KeepFile(res) THEN Append(files, res) ELSE files
    /\ UNCHANGED <<envVars, runVars, streamVars>>

\* The end of choices: exit when nothing matched, else the relative paths.
ChoicesEnd ==
    /\ pc = "walking"
    /\ stack = <<>>
    /\ IF Len(files) = 0
       THEN /\ log' = Append(log, "No matching files found")
            /\ exitCode' = 1
            /\ pc' = "exited"
            /\ UNCHANGED offered
       ELSE /\ offered' = [i \in 1..Len(files) |-> relative(files[i])]
            /\ pc' = "pick"
            /\ UNCHANGED <<log, exitCode>>
    /\ UNCHANGED <<envVars, walkVars, streamVars, answers, validation, contents, request>>

InitWalk ==
    /\ tree \in TreesUpTo(MaxEntries)
    /\ tokens = [f \in FilesOf(tree) |-> 1]
    /\ body = [f \in FilesOf(tree) |-> <<"x">>]
    /\ ext \in ExtOptions
    /\ filter \in FilterOptions
    /\ argFiles = None /\ argModel = None /\ argPrompt = None
    /\ IdleWalk /\ IdleStream
    /\ pc = "files"
    /\ answers = NoAnswers
    /\ offered = <<>>
    /\ validation = NoValidation
    /\ contents = <<>>
    /\ request = None
    /\ exitCode = Nil
    /\ log = <<>>

NextWalk == ChoicesStart \/ WalkStep \/ ChoicesEnd

SpecWalk == InitWalk /\ [][NextWalk]_vars

(***************************************************************************)
(* The files question: validate.                                           *)
(***************************************************************************)
Digits == {"0","1","2","3","4","5","6","7","8","9"}

DigitVal(c) ==
    CASE c = "0" -> 0 [] c = "1" -> 1 [] c = "2" -> 2 [] c = "3" -> 3 [] c = "4" -> 4
      [] c = "5" -> 5 [] c = "6" -> 6 [] c = "7" -> 7 [] c = "8" -> 8 [] c = "9" -> 9

\* /\d+k/ tried at position i: the end of the text it matches there, 0 if none.
\* \d+ is greedy, so the longest run of digits that a "k" follows is taken.
MatchEnd(id, i) ==
    LET ends == {j \in i..(Len(id) - 1) :
                    /\ \A m \in i..j : id[m] \in Digits
                    /\ id[j + 1] = "k"}
    IN IF ends = {} THEN 0 ELSE (CHOOSE j \in ends : \A m \in ends : m <= j) + 1

\* match taking the rightmost match in place of the leftmost.
matchRightmost(id) ==
    LET starts == {i \in 1..Len(id) : MatchEnd(id, i) # 0}
    IN IF starts = {} THEN None
       ELSE LET i == CHOOSE a \in starts : \A b \in starts : a >= b
            IN Some(SubSeq(id, i, MatchEnd(id, i)))

\* answers.model.match(/\d+k/): size[0] of the leftmost match, None for null.
match(id) ==
    LET starts == {i \in 1..Len(id) : MatchEnd(id, i) # 0}
    IN IF starts = {} THEN None
       ELSE LET i == CHOOSE a \in starts : \A b \in starts : a <= b
            IN Some(SubSeq(id, i, MatchEnd(id, i)))

RECURSIVE parseIntFrom(_, _)
\* parseInt on a string that starts with a digit: the digits up to the first
\* character that is none, read in base ten.
parseIntFrom(s, acc) ==
    IF s = <<>> \/ Head(s) \notin Digits THEN acc
    ELSE parseIntFrom(Tail(s), acc * 10 + DigitVal(Head(s)))

parseInt(s) == parseIntFrom(s, 0)

MAX_TOKEN(model) ==
    LET size == match(model)
    IN IF size.given THEN parseInt(size.val) * 1000 ELSE 4000

RECURSIVE tokenCount(_)
\* The for-await loop of validate: the sum of the files' token counts.
tokenCount(sel) ==
    IF sel = <<>> THEN 0
    ELSE tokens[resolve(cwd, Head(sel))] + tokenCount(Tail(sel))

\* TooMany with >= in place of >.
TooManyOrEqual(count, max) == count >= max

\* The test that makes validate throw.
TooMany(count, max) == count > max

RECURSIVE Pick(_, _, _)
\* The checked choices of the checkbox from the i-th on, in the order listed.
Pick(choices, checked, i) ==
    IF i > Len(choices) THEN <<>>
    ELSE (IF i \in checked THEN <<choices[i]>> ELSE <<>>) \o Pick(choices, checked, i + 1)

\* The user submits the checkbox and inquirer calls validate(files, answers).
\* A throw keeps the question on screen with the message; `true` stores the answer.
Submit ==
    /\ pc = "pick"
    /\ \E checked \in SUBSET (1..Len(offered)) :
         LET sel == Pick(offered, checked, 1)
             count == tokenCount(sel)
             max == MAX_TOKEN(answers.model.val)
         IN /\ validation' = [ran |-> TRUE, files |-> sel, ok |-> ~TooMany(count, max),
                              tokenCount |-> count, MAX_TOKEN |-> max]
            /\ IF TooMany(count, max)
               THEN UNCHANGED <<pc, answers>>
               ELSE /\ answers' = [answers EXCEPT !.files = Some(sel)]
                    /\ pc' = "prompt"
    /\ UNCHANGED <<envVars, walkVars, streamVars, offered, contents, request, exitCode, log>>

(***************************************************************************)
(* The other questions of inquirer.prompt(inquirerQuestions, answers).     *)
(***************************************************************************)
M_gpt4 == <<"g","p","t","-","4">>
M_gpt1k == <<"g","p","t","-","1","k">>
GptModels == {M_gpt4, M_gpt1k}

DEFAULT_PROMPT == <<"\n", "Explain the following code.", "\n">>
TypedPrompts == {<<" ", "Why?", "\n">>}

\* The model question: asked when no model came with the options.
AskModel ==
    /\ pc = "model"
    /\ IF answers.model.given
       THEN UNCHANGED answers
       ELSE \E m \in GptModels : answers' = [answers EXCEPT !.model = Some(m)]
    /\ pc' = "files"
    /\ UNCHANGED <<envVars, walkVars, streamVars, offered, validation, contents, request, exitCode, log>>

\* The files question already has an answer (positional arguments): inquirer
\* skips the question, its choices and its validate.
SkipFiles ==
    /\ pc = "files"
    /\ answers.files.given
    /\ pc' = "prompt"
    /\ UNCHANGED <<envVars, walkVars, streamVars, answers, offered, validation, contents, request, exitCode, log>>

\* The changePrompt and prompt questions, then inquirer resolves with answers.
AskPrompt ==
    /\ pc = "prompt"
    /\ IF argPrompt.given
       THEN UNCHANGED answers
       ELSE \/ UNCHANGED answers
            \/ \E t \in TypedPrompts : answers' = [answers EXCEPT !.prompt = t]
    /\ pc' = "explain"
    /\ UNCHANGED <<envVars, walkVars, streamVars, offered, validation, contents, request, exitCode, log>>

(***************************************************************************)
(* explain(answers).                                                       *)
(***************************************************************************)
SYSTEM_PROMPT ==
    <<"\n", " ", "You are an experienced software engineer with computer science background. You are great at explaining code to others.", "\n", " ">>

\* The three backquotes that open and close the fenced block.
Fence == "[fence]"

fileContentToMessage(c) ==
    [role |-> "user",
     content |-> trim(<<"Filename: ">> \o c.relative \o <<"\n", "\n", Fence, "\n">>
                      \o c.content \o <<"\n", Fence, "\n">>)]

\* The array literal `messages`.
Messages(prompt, cs) ==
    <<[role |-> "system", content |-> trim(SYSTEM_PROMPT)],
      [role |-> "user", content |-> trim(prompt)]>>
    \o [i \in 1..Len(cs) |-> fileContentToMessage(cs[i].val)]

\* NoFiles with the test left out.
NoFilesUnchecked(fs) == FALSE

\* The test of `if (answers.files.length === 0)`.
NoFiles(fs) == Len(fs) = 0

\* Settle pushing the value in the order the promises settle.
SettleInArrivalOrder(slots, i, v) ==
    LET free == CHOOSE m \in 1..Len(slots) :
                    ~slots[m].given /\ \A n \in 1..(m - 1) : slots[n].given
    IN [slots EXCEPT ![free] = Some(v)]

\* Promise.all puts the value of the i-th promise at index i of its result.
Settle(slots, i, v) == [slots EXCEPT ![i] = Some(v)]

\* An error thrown in explain rejects the promise chain; the catch handler
\* rethrows it and node ends the process with code 1.
Throw ==
    /\ pc' = "exited"
    /\ exitCode' = 1

\* explain up to the Promise.all: every readFile is issued.
ExplainStart ==
    /\ pc = "explain"
    /\ IF NoFiles(answers.files.val)
       THEN /\ Throw
            /\ UNCHANGED contents
       ELSE /\ contents' = [i \in 1..Len(answers.files.val) |-> None]
            /\ pc' = "reading"
            /\ UNCHANGED exitCode
    /\ UNCHANGED <<envVars, walkVars, streamVars, answers, offered, validation, request, log>>

\* One fs.readFile of the Promise.all settles, in any order.
ReadFile ==
    /\ pc = "reading"
    /\ \E i \in 1..Len(contents) :
         /\ ~contents[i].given
         /\ LET rel == answers.files.val[i]
                absolute == resolve(cwd, rel)
            IN IF absolute \in DOMAIN body
               THEN /\ contents' = Settle(contents, i,
                                      [relative |-> rel, absolute |-> absolute, content |-> body[absolute]])
                    /\ UNCHANGED <<pc, exitCode>>
               ELSE /\ Throw
                    /\ UNCHANGED contents
    /\ UNCHANGED <<envVars, walkVars, streamVars, answers, offered, validation, request, log>>

\* Promise.all resolved: the messages are built and the request is sent.
Send ==
    /\ pc = "reading"
    /\ \A i \in 1..Len(contents) : contents[i].given
    /\ request' = Some([messages |-> Messages(answers.prompt, contents),
                        model |-> answers.model.val,
                        stream |-> TRUE])
    /\ log' = Append(log, "Talking to OpenAI...")
    /\ pc' = "sent"
    /\ UNCHANGED <<envVars, walkVars, streamVars, answers, offered, validation, contents, exitCode>>

(***************************************************************************)
(* A run from the first question to the request.                           *)
(***************************************************************************)
T_src == {[path |-> <<N_ajs>>, dir |-> FALSE],
          [path |-> <<N_lib>>, dir |-> TRUE],
          [path |-> <<N_lib, N_bts>>, dir |-> FALSE]}
T_dist == {[path |-> <<N_dist>>, dir |-> TRUE],
           [path |-> <<N_dist, N_ajs>>, dir |-> FALSE]}
RunTrees == {T_src, T_dist}

TokenChoices == {1, 1000, 3000, 4000}
Bodies == {<<"x">>, <<" ", "x", "\n">>}

R_ajs == N_ajs
R_libbts == N_lib \o <<"/">> \o N_bts
Positional ==
    {<<a>> : a \in {R_ajs, R_libbts}} \cup {<<a, b>> : a \in {R_ajs, R_libbts}, b \in {R_ajs, R_libbts}}

Init ==
    /\ tree \in RunTrees
    /\ tokens \in [FilesOf(tree) -> TokenChoices]
    /\ body \in [FilesOf(tree) -> Bodies]
    /\ ext \in {None, Some(<<E_ts>>), Some(<<E_JS>>)}
    /\ filter = None
    /\ argFiles \in {None} \cup {Some(a) : a \in Positional}
    /\ argModel \in {None} \cup {Some(m) : m \in GptModels}
    /\ argPrompt \in {None, Some(<<" ", "Explain.", "\n">>)}
    /\ IdleWalk /\ IdleStream
    /\ pc = "model"
    /\ answers = [model |-> argModel,
                  files |-> argFiles,
                  prompt |-> trim(IF argPrompt.given THEN argPrompt.val ELSE DEFAULT_PROMPT)]
    /\ offered = <<>>
    /\ validation = NoValidation
    /\ contents = <<>>
    /\ request = None
    /\ exitCode = Nil
    /\ log = <<>>

Next ==
    \/ AskModel
    \/ SkipFiles
    \/ ChoicesStart
    \/ WalkStep
    \/ ChoicesEnd
    \/ Submit
    \/ AskPrompt
    \/ ExplainStart
    \/ ReadFile
    \/ Send

Spec == Init /\ [][Next]_vars

(***************************************************************************)
(* The AIStream callback.                                                  *)
(***************************************************************************)
Chunks ==
    [error : {Nil}, delta : {Nil, "", "Hello"}, text : {Nil, "legacy"},
     finish_reason : {Nil, "stop", "length"}]
    \cup [error : {"rate limited"}, delta : {Nil, "Hello"}, text : {Nil},
          finish_reason : {Nil}]

\* process.stdout.write(s)
write(o, s) == IF s = "" THEN o ELSE Append(o, s)

\* console.log(s): the text and a newline; console.log(): the newline alone.
consoleLog(o, s) == Append(write(o, s), "\n")

StoppedEarly(reason) ==
    CASE reason = "length" -> "OpenAI stopped early, reason: length"
      [] reason = "stop" -> "OpenAI stopped early, reason: stop"

\* HasError with the test left out.
HasErrorUnchecked(json) == FALSE

\* The test of `if (json.error)`.
HasError(json) == json.error # Nil

\* TextOf preferring the legacy text field.
TextOfLegacyFirst(json) ==
    IF json.text # Nil THEN json.text
    ELSE IF json.delta # Nil THEN json.delta
    ELSE ""

\* json.choices[0]?.delta?.content ?? json.choices[0]?.text ?? ''
TextOf(json) ==
    IF json.delta # Nil THEN json.delta
    ELSE IF json.text # Nil THEN json.text
    ELSE ""

\* The test of `if (finishReason !== 'stop')`.
NotStop(finishReason) == finishReason # "stop"

\* Lines 356-368: what a chunk without error adds to standard output.
Emit(o, json) ==
    LET o1 == write(o, TextOf(json))
        finishReason == json.finish_reason
    IN IF finishReason # Nil
       THEN LET o2 == IF NotStop(finishReason)
                      THEN consoleLog(consoleLog(o1, ""), StoppedEarly(finishReason))
                      ELSE o1
            IN write(o2, "\n")
       ELSE o1

\* Lines 349-352: what a chunk with an error adds to standard output.
EmitError(o, json) ==
    consoleLog(consoleLog(consoleLog(consoleLog(o, ""), "OpenAI error:"), ""), json.error)

\* AIStream hands the next chunk of the response to the callback.
OnChunk ==
    /\ pc = "streaming"
    /\ Len(received) < MaxChunks
    /\ \E json \in Chunks :
         /\ received' = Append(received, json)
         /\ prevOut' = out
         /\ IF HasError(json)
            THEN /\ out' = EmitError(out, json)
                 /\ exitCode' = 1
                 /\ pc' = "exited"
            ELSE /\ out' = Emit(out, json)
                 /\ UNCHANGED <<pc, exitCode>>
    /\ UNCHANGED <<envVars, walkVars, answers, offered, validation, contents, request, log>>

\* The response ends; nothing is left to do and node ends the process.
StreamEnd ==
    /\ pc = "streaming"
    /\ pc' = "exited"
    /\ exitCode' = 0
    /\ UNCHANGED <<envVars, walkVars, streamVars, answers, offered, validation, contents, request, log>>

\* The run `explain a.js --model gpt-4` once the request has been sent.
InitStream ==
    /\ tree = T_src
    /\ tokens = [f \in FilesOf(tree) |-> 1000]
    /\ body = [f \in FilesOf(tree) |-> <<"x">>]
    /\ ext = None /\ filter = None
    /\ argFiles = Some(<<R_ajs>>) /\ argModel = Some(M_gpt4) /\ argPrompt = None
    /\ IdleWalk /\ IdleStream
    /\ pc = "streaming"
    /\ answers = [model |-> argModel, files |-> argFiles, prompt |-> trim(DEFAULT_PROMPT)]
    /\ offered = <<>>
    /\ validation = NoValidation
    /\ contents = <<Some([relative |-> R_ajs, absolute |-> resolve(cwd, R_ajs),
                          content |-> body[resolve(cwd, R_ajs)]])>>
    /\ request = Some([messages |-> Messages(answers.prompt, contents),
                       model |-> answers.model.val,
                       stream |-> TRUE])
    /\ exitCode = Nil
    /\ log = <<"Talking to OpenAI...">>

NextStream == OnChunk \/ StreamEnd

SpecStream == InitStream /\ [][NextStream]_vars

(***************************************************************************)
(* validate for every model identifier.                                    *)
(***************************************************************************)
IdChars == {"g", "k", "0", "1", "3"}

RECURSIVE Ids(_)
Ids(n) ==
    IF n = 0 THEN {<<>>}
    ELSE LET shorter == Ids(n - 1)
         IN shorter \cup {Append(s, c) : s \in shorter, c \in IdChars}

\* The files question is on screen for the tree T_src; the model is any id.
InitBudget ==
    /\ tree = T_src
    /\ tokens = [f \in FilesOf(tree) |-> 1000]
    /\ body = [f \in FilesOf(tree) |-> <<"x">>]
    /\ ext = None /\ filter = None
    /\ argFiles = None /\ argPrompt = None
    /\ argModel \in {Some(id) : id \in Ids(MaxIdLen) \ {<<>>}}
    /\ stack = <<>>
    /\ yielded = <<resolve(cwd, R_ajs), resolve(cwd, R_libbts)>>
    /\ files = yielded
    /\ IdleStream
    /\ pc = "pick"
    /\ answers = [model |-> argModel, files |-> None, prompt |-> trim(DEFAULT_PROMPT)]
    /\ offered = <<R_ajs, R_libbts>>
    /\ validation = NoValidation
    /\ contents = <<>>
    /\ request = None
    /\ exitCode = Nil
    /\ log = <<>>

NextBudget == Submit

SpecBudget == InitBudget /\ [][NextBudget]_vars

(***************************************************************************)
(* Properties.                                                             *)
(***************************************************************************)
Last(q) == q[Len(q)]
Front(q) == SubSeq(q, 1, Len(q) - 1)

RECURSIVE SumOf(_)
\* The summed estimated tokens of a selection of relative paths.
SumOf(sel) ==
    IF sel = <<>> THEN 0 ELSE SumOf(Front(sel)) + tokens[cwd \o <<"/">> \o Last(sel)]

\* C1: a chat-completion request is sent only after the token-budget
\* validation of the files it carries has passed, on the interactive path and
\* on the positional-argument path alike, so the summed estimated tokens of the
\* files of any sent request are at or below the budget of the request's model.
C1_RequestWithinBudget ==
    request.given =>
        SumOf(answers.files.val) <= MAX_TOKEN(request.val.model)

\* C2: validate accepts a selection iff the sum of its files' token counts is
\* at most the budget (equal passes); a rejection names the sum and the limit,
\* leaves the run at the files question, and no answer is stored and no request
\* is sent.
C2_ValidatorAcceptsIffWithinBudget ==
    validation.ran =>
        /\ validation.ok <=> SumOf(validation.files) <= MAX_TOKEN(answers.model.val)
        /\ ~validation.ok =>
              /\ validation.tokenCount = SumOf(validation.files)
              /\ validation.MAX_TOKEN = MAX_TOKEN(answers.model.val)
              /\ pc = "pick"
              /\ ~answers.files.given
              /\ contents = <<>>
              /\ ~request.given

C2_AcceptedAtBudget ==
    /\ validation.ran /\ validation.ok
    /\ Len(validation.files) = 2
    /\ validation.tokenCount = validation.MAX_TOKEN
    /\ answers.files = Some(validation.files)
    /\ request.given

C2_RejectedAboveBudget ==
    /\ validation.ran /\ ~validation.ok
    /\ validation.tokenCount = validation.MAX_TOKEN + 1

\* What the claims call the text delta of a chunk: the delta-style field when
\* it is there, else the legacy text field, else nothing.
DeltaOf(c) ==
    CASE c.delta # Nil -> <<c.delta>>
      [] c.delta = Nil /\ c.text # Nil -> <<c.text>>
      [] OTHER -> <<>>

RECURSIVE Concat(_)
\* The concatenation of the text deltas of chunks, in order; an empty delta
\* adds nothing.
Concat(cs) ==
    IF cs = <<>> THEN <<>>
    ELSE Concat(Front(cs)) \o SelectSeq(DeltaOf(Last(cs)), LAMBDA t : t # "")

\* Zero or more text chunks, then one chunk with a finish reason; no error.
Complete(cs) ==
    /\ cs # <<>>
    /\ \A k \in 1..Len(cs) : cs[k].error = Nil
    /\ \A k \in 1..(Len(cs) - 1) : cs[k].finish_reason = Nil
    /\ Last(cs).finish_reason # Nil

Warning(reason) == <<"\n", StoppedEarly(reason), "\n">>

\* C3: for a response of text chunks and one final chunk with a finish reason,
\* standard output is the concatenation of the deltas in arrival order, then a
\* warning naming the reason iff the reason is not "stop", then a newline, and
\* the process ends with exit code 0.
C3_CompleteStreamOutput ==
    Complete(received) =>
        /\ out = Concat(received)
                 \o (IF Last(received).finish_reason = "stop"
                     THEN <<>> ELSE Warning(Last(received).finish_reason))
                 \o <<"\n">>
        /\ pc = "exited" => exitCode = 0

C3_LengthStreamEnded ==
    /\ Complete(received)
    /\ Len(received) = 3
    /\ received[1].delta = "Hello" /\ received[1].text = "legacy"
    /\ received[2].delta = Nil /\ received[2].text = "legacy"
    /\ Last(received).finish_reason = "length"
    /\ pc = "exited"

C3_StopStream ==
    /\ Complete(received)
    /\ Len(received) = 3
    /\ Last(received).finish_reason = "stop"
    /\ out = <<"Hello", "Hello", "\n">>

\* C4: a chunk with an error payload, wherever it comes in the stream, has its
\* message printed and ends the process with exit code 1; the text delta of
\* that chunk is not written, no later chunk is processed and nothing follows
\* the message.
C4_ErrorChunkIsFatal ==
    \A k \in 1..Len(received) :
        received[k].error # Nil =>
            /\ k = Len(received)
            /\ out = prevOut \o <<"\n", "OpenAI error:", "\n", "\n", received[k].error, "\n">>
            /\ pc = "exited"
            /\ exitCode = 1

C4_ErrorAfterText ==
    /\ Len(received) = 3
    /\ received[1].finish_reason = "stop"
    /\ received[2].delta = "Hello"
    /\ received[3].error = "rate limited" /\ received[3].delta = "Hello"
    /\ exitCode = 1

\* C5: once a chunk with a finish reason has been processed the stream is
\* ended: a chunk that arrives after it writes nothing to standard output (no
\* text, no second newline, no further warning).
C5_NothingAfterFinish ==
    (/\ \E k \in 1..(Len(received) - 1) : received[k].finish_reason # Nil
     /\ \A k \in 1..Len(received) : received[k].error = Nil)
        => out = prevOut

\* C6: when the walk and the filter leave no file, "No matching files found"
\* is printed and the process ends with code 1; when the final selection is
\* empty the process ends with code 1; in both cases no request is sent and
\* the run does not go back to the files question.
C6_FatalUserInput ==
    /\ (~argFiles.given /\ pc \notin {"model", "files", "walking"} /\ files = <<>>) =>
          /\ pc = "exited" /\ exitCode = 1
          /\ Last(log) = "No matching files found"
          /\ ~request.given
    /\ (answers.files.given /\ answers.files.val = <<>> /\ pc \notin {"prompt", "explain"}) =>
          /\ pc = "exited" /\ exitCode = 1
          /\ ~request.given

C6_EmptySelectionExit ==
    /\ answers.files = Some(<<>>)
    /\ validation.ran /\ validation.ok
    /\ pc = "exited"

C6_NoMatchExit ==
    /\ yielded # <<>> /\ files = <<>>
    /\ pc = "exited"

\* t is s without its leading and trailing whitespace.
IsTrimOf(t, s) ==
    /\ \E a \in 0..Len(s) : \E b \in a..Len(s) :
          /\ t = SubSeq(s, a + 1, b)
          /\ \A m \in (1..a) \cup ((b + 1)..Len(s)) : s[m] \in Whitespace
    /\ t # <<>> => t[1] \notin Whitespace /\ Last(t) \notin Whitespace

\* C7: the messages of the request are one system message, one user message
\* with the trimmed prompt, then for the i-th selected file a user message with
\* its relative path and its content, unaltered, in the fenced block, whatever
\* order the reads completed in; no file is dropped, moved or merged.
C7_MessagesFollowSelection ==
    request.given =>
        LET sel == answers.files.val
            ms == request.val.messages
        IN /\ Len(ms) = Len(sel) + 2
           /\ ms[1].role = "system"
           /\ ms[2].role = "user" /\ IsTrimOf(ms[2].content, answers.prompt)
           /\ \A i \in 1..Len(sel) :
                ms[i + 2] = [role |-> "user",
                             content |-> <<"Filename: ">> \o sel[i] \o <<"\n", "\n", Fence, "\n">>
                                         \o body[cwd \o <<"/">> \o sel[i]]
                                         \o <<"\n", Fence>>]

C7_TwoFilesSent ==
    /\ request.given
    /\ answers.files.val = <<R_libbts, R_ajs>>
    /\ body[resolve(cwd, R_ajs)] # body[resolve(cwd, R_libbts)]
    /\ answers.prompt \in TypedPrompts

C7_SameFileTwice ==
    /\ request.given
    /\ answers.files.val = <<R_ajs, R_ajs>>

\* The filter as the claim states it.
Passes(f) ==
    /\ \/ ~ext.given
       \/ ext.val = <<>>
       \/ \E i \in 1..Len(ext.val) : endsWith(f, ext.val[i])
    /\ \/ ~filter.given
       \/ filter.val = <<>>
       \/ \E i \in 1..Len(filter.val) : includes(f, filter.val[i])

C8_UpperCaseExtension ==
    /\ pc = "exited"
    /\ ext = Some(<<E_JS>>)
    /\ Len(yielded) = 2

ExclusionSet ==
    {N_node_modules, N_git, N_next, N_vscode, N_idea, N_github, N_dist, N_build}

Excluded(segs) == \E i \in 1..Len(segs) : segs[i] \in ExclusionSet

WalkDone == (pc = "walking" /\ stack = <<>>) \/ pc = "pick"

RECURSIVE Value(_)
\* The number a string of digits writes in base ten.
Value(ds) == IF ds = <<>> THEN 0 ELSE 10 * Value(Front(ds)) + DigitVal(Last(ds))

\* Positions i..j of id hold one or more digits and a "k" follows at j + 1.
Hint(id, i, j) ==
    /\ i <= j /\ j < Len(id)
    /\ \A m \in i..j : id[m] \in Digits
    /\ id[j + 1] = "k"

Budget(id) ==
    LET hints == {h \in (1..Len(id)) \X (1..Len(id)) : Hint(id, h[1], h[2])}
    IN IF hints = {} THEN 4000
       ELSE LET first == CHOOSE h \in hints : \A g \in hints : h[1] <= g[1]
            IN Value(SubSeq(id, first[1], first[2])) * 1000

\* C10: the budget validate uses is N * 1000 when the model identifier holds
\* digits followed by "k", N being the number of the first such match, and
\* 4000 when it holds none.
C10_BudgetFromModelId ==
    validation.ran => validation.MAX_TOKEN = Budget(answers.model.val)

C10_SecondHintIgnored ==
    /\ validation.ran
    /\ answers.model.val = <<"1", "k", "3", "k">>
    /\ validation.MAX_TOKEN = 1000

C10_NoHint ==
    /\ validation.ran
    /\ answers.model.val = <<"g", "3", "1">>
    /\ validation.MAX_TOKEN = 4000

====
